---- MODULE Spec2Model ----
(***************************************************************************)
(* Model of the third-party-summary audit (ThirdPartySummary):             *)
(* getEntitySafe, getSummaryByEntity and audit.                            *)
(*                                                                         *)
(* Numbers are integers.  transferSize is a byte count, selfTime and       *)
(* mainThreadTime are milliseconds.  The sort value of the source,         *)
(* transferSize / 1024 + mainThreadTime, is kept exact by carrying it      *)
(* multiplied by 1024 (a division by a power of two loses nothing).        *)
(***************************************************************************)
EXTENDS Integers, Sequences, FiniteSets, TLC

VARIABLES
    settings,        \* context.settings
    pc,              \* position of the async function audit
    recordsStatus,   \* promise of NetworkRecords.request
    tasksStatus,     \* promise of MainThreadTasks.request
    networkRecords,  \* value of NetworkRecords.request once resolved
    tasks,           \* value of MainThreadTasks.request once resolved
    multiplier,      \* const multiplier of audit
    invoked,         \* getSummaryByEntity has been called
    entities,        \* the Map of getSummaryByEntity, in insertion order
    jsURLs,          \* BootupTime.getJavaScriptURLs(networkRecords)
    i,               \* next index of the loop over networkRecords
    j,               \* next index of the loop over mainThreadTasks
    product          \* what audit resolved with

vars == <<settings, pc, recordsStatus, tasksStatus, networkRecords, tasks,
          multiplier, invoked, entities, jsURLs, i, j, product>>

----------------------------------------------------------------------------
(* Bounds of the model *)

MaxRecords == 2
MaxTasks == 2

----------------------------------------------------------------------------
(* The third-party-web knowledge base, as seen through getEntity *)

Undefined == "undefined"
Thrown == "throws"

GA == "Google Analytics"
FB == "Facebook"
EntityNames == {GA, FB}

UrlGA1 == "https://www.google-analytics.com/analytics.js"
UrlGA2 == "https://ssl.google-analytics.com/ga.js"
UrlFB == "https://connect.facebook.net/en_US/sdk.js"
UrlFBPixel == "https://www.facebook.com/tr"
UrlPage == "https://example.com/"
UrlOther == "Other"
NotAUrl == "not a url"

\* entity.homepage; Facebook's entry carries none
homepage(entity) ==
    IF entity = GA THEN "https://www.google.com/analytics/analytics/"
    ELSE Undefined

\* thirdPartyWeb.getEntity: an entity, undefined, or an exception
thirdPartyWeb_getEntity(url) ==
    CASE url \in {UrlGA1, UrlGA2} -> GA
      [] url \in {UrlFB, UrlFBPixel} -> FB
      [] url \in {UrlOther, NotAUrl} -> Thrown
      [] OTHER -> Undefined

\* variant: no try/catch around the lookup
getEntityUnsafe(url) == thirdPartyWeb_getEntity(url)

\* ThirdPartySummary.getEntitySafe: try { return getEntity(url) } catch { return undefined }
getEntitySafe(url) ==
    LET r == thirdPartyWeb_getEntity(url)
    IN  IF r = Thrown THEN Undefined ELSE r

----------------------------------------------------------------------------
(* Inputs *)

\* a context without settings
NoSettings == [absent |-> TRUE]

\* context.settings
SettingsValues ==
    {NoSettings}
    \cup [throttlingMethod : {"simulate"}, throttling : [cpuSlowdownMultiplier : {1, 4}]]
    \cup [throttlingMethod : {"devtools", "provided"}, throttling : [cpuSlowdownMultiplier : {4}]]

RecordValues ==
    { [url |-> UrlGA1, transferSize |-> 100, resourceType |-> "Script"],
      [url |-> UrlGA2, transferSize |-> 200, resourceType |-> "Script"],
      [url |-> UrlFB, transferSize |-> 2048, resourceType |-> "Script"],
      [url |-> UrlFBPixel, transferSize |-> 0, resourceType |-> "Image"],
      [url |-> UrlPage, transferSize |-> 500, resourceType |-> "Document"],
      [url |-> NotAUrl, transferSize |-> 500, resourceType |-> "Other"] }

TaskValues ==
    { [attributableURLs |-> <<UrlGA1>>, selfTime |-> 50],
      [attributableURLs |-> <<UrlFB>>, selfTime |-> 1],
      [attributableURLs |-> <<UrlFB>>, selfTime |-> 0],
      [attributableURLs |-> <<UrlPage, UrlGA1>>, selfTime |-> 100],
      [attributableURLs |-> << >>, selfTime |-> 10] }

SeqsUpTo(S, n) == UNION {[1..k -> S] : k \in 0..n}

----------------------------------------------------------------------------
(* BootupTime, used by getSummaryByEntity *)

\* BootupTime.getJavaScriptURLs: the URLs of the script records
getJavaScriptURLs(records) ==
    {records[k].url : k \in {n \in 1..Len(records) : records[n].resourceType = "Script"}}

\* BootupTime.getAttributableURLForTask: the first candidate that is a known
\* script URL, else the first candidate, else the placeholder of unattributed
\* work
getAttributableURLForTask(task, urls) ==
    LET c == task.attributableURLs
        hits == {k \in 1..Len(c) : c[k] \in urls}
    IN  IF hits # {} THEN c[CHOOSE k \in hits : \A m \in hits : k <= m]
        ELSE IF Len(c) > 0 THEN c[1]
        ELSE UrlOther

----------------------------------------------------------------------------
(* getSummaryByEntity: the Map and its two loops *)

NoStats == [mainThreadTime |-> 0, transferSize |-> 0]

\* index of the entry of a key in the Map, 0 when it has none
indexOf(map, entity) ==
    IF \E k \in 1..Len(map) : map[k].entity = entity
    THEN CHOOSE k \in 1..Len(map) : map[k].entity = entity
    ELSE 0

\* entities.get(entity) || {mainThreadTime: 0, transferSize: 0}
getStats(map, entity) ==
    IF indexOf(map, entity) = 0 THEN NoStats ELSE map[indexOf(map, entity)].stats

\* variant: every set adds an entry
mapSetAppend(map, entity, stats) == Append(map, [entity |-> entity, stats |-> stats])

\* entities.set(entity, entityStats): an existing key keeps its place, a new
\* one goes last
mapSet(map, entity, stats) ==
    IF indexOf(map, entity) = 0
    THEN Append(map, [entity |-> entity, stats |-> stats])
    ELSE [map EXCEPT ![indexOf(map, entity)].stats = stats]

\* variant: a record without bytes is skipped
addRequestSkipEmpty(map, request) ==
    LET entity == getEntitySafe(request.url)
        entityStats == getStats(map, entity)
    IN  IF entity = Undefined \/ request.transferSize = 0 THEN map
        ELSE mapSet(map, entity,
                 [entityStats EXCEPT !.transferSize = @ + request.transferSize])

\* body of the loop over networkRecords
addRequest(map, request) ==
    LET entity == getEntitySafe(request.url)
        entityStats == getStats(map, entity)
    IN  IF entity = Undefined THEN map
        ELSE mapSet(map, entity,
                 [entityStats EXCEPT !.transferSize = @ + request.transferSize])

\* variant: the multiplier is forgotten
addTaskUnscaled(map, task, urls, cpuMultiplier) ==
    LET attributeableURL == getAttributableURLForTask(task, urls)
        entity == getEntitySafe(attributeableURL)
        entityStats == getStats(map, entity)
    IN  IF entity = Undefined THEN map
        ELSE mapSet(map, entity,
                 [entityStats EXCEPT !.mainThreadTime = @ + task.selfTime])

\* variant: the task's time lands in the byte total
addTaskToTransferSize(map, task, urls, cpuMultiplier) ==
    LET attributeableURL == getAttributableURLForTask(task, urls)
        entity == getEntitySafe(attributeableURL)
        entityStats == getStats(map, entity)
    IN  IF entity = Undefined THEN map
        ELSE mapSet(map, entity,
                 [entityStats EXCEPT !.transferSize = @ + task.selfTime * cpuMultiplier])

\* body of the loop over mainThreadTasks
addTask(map, task, urls, cpuMultiplier) ==
    LET attributeableURL == getAttributableURLForTask(task, urls)
        entity == getEntitySafe(attributeableURL)
        entityStats == getStats(map, entity)
    IN  IF entity = Undefined THEN map
        ELSE mapSet(map, entity,
                 [entityStats EXCEPT !.mainThreadTime = @ + task.selfTime * cpuMultiplier])

----------------------------------------------------------------------------
(* audit: multiplier, rows, summary, score *)

\* property read of a JavaScript object
Get(obj, field) == IF field \in DOMAIN obj THEN obj[field] ELSE Undefined

EmptyObject == [k \in {} |-> Undefined]

DefaultMultiplier == 1

\* variant: the throttling method is not looked at
computeMultiplierAlways(s) ==
    IF s = NoSettings THEN DefaultMultiplier ELSE s.throttling.cpuSlowdownMultiplier

\* const settings = context.settings || {}; const multiplier = ... ? ... : 1
computeMultiplier(s) ==
    LET settingsOrEmpty == IF s = NoSettings THEN EmptyObject ELSE s
    IN  IF Get(settingsOrEmpty, "throttlingMethod") = "simulate"
        THEN settingsOrEmpty.throttling.cpuSlowdownMultiplier
        ELSE DefaultMultiplier

KiB == 1024

\* computeSortValue, times 1024
computeSortValue(stats) == stats.transferSize + KiB * stats.mainThreadTime

\* variant: bytes alone decide
compareRowsByBytes(a, b) == b.transferSize - a.transferSize

\* the comparator handed to sort
compareRows(a, b) == computeSortValue(b) - computeSortValue(a)

\* one row of the table
makeRow(entry) ==
    [entity |-> [type |-> "link",
                 text |-> entry.entity,
                 url |-> IF homepage(entry.entity) = Undefined THEN ""
                         ELSE homepage(entry.entity)],
     transferSize |-> entry.stats.transferSize,
     mainThreadTime |-> entry.stats.mainThreadTime]

\* Array.from(entries).map(...)
mapRows(map) == [k \in 1..Len(map) |-> makeRow(map[k])]

\* variant: = instead of +=
summarizeAssign(map) ==
    IF map = << >> THEN [wastedBytes |-> 0, wastedMs |-> 0]
    ELSE [wastedBytes |-> map[Len(map)].stats.transferSize,
          wastedMs |-> map[Len(map)].stats.mainThreadTime]

\* the sums the map callback adds to summary
RECURSIVE summarize(_)
summarize(map) ==
    IF map = << >> THEN [wastedBytes |-> 0, wastedMs |-> 0]
    ELSE LET rest == summarize(SubSeq(map, 1, Len(map) - 1))
             stats == map[Len(map)].stats
         IN  [wastedBytes |-> rest.wastedBytes + stats.transferSize,
              wastedMs |-> rest.wastedMs + stats.mainThreadTime]

\* insert a row into a sorted array, after the rows that do not compare
\* greater (a stable sort)
RECURSIVE insertRow(_, _)
insertRow(sorted, row) ==
    IF sorted = << >> THEN <<row>>
    ELSE IF compareRows(Head(sorted), row) <= 0
         THEN <<Head(sorted)>> \o insertRow(Tail(sorted), row)
         ELSE <<row>> \o sorted

\* Array.prototype.sort with compareRows
RECURSIVE sortRows(_)
sortRows(rows) ==
    IF rows = << >> THEN << >>
    ELSE insertRow(sortRows(SubSeq(rows, 1, Len(rows) - 1)), rows[Len(rows)])

\* variant: rows without cost do not count
computeScoreByCost(results) ==
    IF \A k \in 1..Len(results) :
           results[k].transferSize = 0 /\ results[k].mainThreadTime = 0
    THEN 1 ELSE 0

\* score: Number(results.length === 0)
computeScore(results) == IF Len(results) = 0 THEN 1 ELSE 0

NoProduct == [settled |-> FALSE]

----------------------------------------------------------------------------
(* The state machine of audit *)

Init ==
    /\ settings \in SettingsValues
    /\ pc = "requestNetworkRecords"
    /\ recordsStatus = "pending"
    /\ tasksStatus = "pending"
    /\ networkRecords = << >>
    /\ tasks = << >>
    /\ multiplier = 0
    /\ invoked = FALSE
    /\ entities = << >>
    /\ jsURLs = {}
    /\ i = 1
    /\ j = 1
    /\ product = NoProduct

\* await NetworkRecords.request resolves
NetworkRecordsResolve ==
    /\ pc = "requestNetworkRecords"
    /\ \E records \in SeqsUpTo(RecordValues, MaxRecords) : networkRecords' = records
    /\ recordsStatus' = "resolved"
    /\ pc' = "requestTasks"
    /\ UNCHANGED <<settings, tasksStatus, tasks, multiplier, invoked, entities,
                   jsURLs, i, j, product>>

\* await NetworkRecords.request rejects: audit rejects
NetworkRecordsReject ==
    /\ pc = "requestNetworkRecords"
    /\ recordsStatus' = "rejected"
    /\ pc' = "rejected"
    /\ UNCHANGED <<settings, tasksStatus, networkRecords, tasks, multiplier, invoked,
                   entities, jsURLs, i, j, product>>

\* await MainThreadTasks.request resolves
MainThreadTasksResolve ==
    /\ pc = "requestTasks"
    /\ \E ts \in SeqsUpTo(TaskValues, MaxTasks) : tasks' = ts
    /\ tasksStatus' = "resolved"
    /\ pc' = "callGetSummaryByEntity"
    /\ UNCHANGED <<settings, recordsStatus, networkRecords, multiplier, invoked,
                   entities, jsURLs, i, j, product>>

\* variant: the rejection is swallowed and audit goes on without tasks
MainThreadTasksRejectSwallowed ==
    /\ pc = "requestTasks"
    /\ tasksStatus' = "rejected"
    /\ pc' = "callGetSummaryByEntity"
    /\ UNCHANGED <<settings, recordsStatus, networkRecords, tasks, multiplier, invoked,
                   entities, jsURLs, i, j, product>>

\* await MainThreadTasks.request rejects: audit rejects
MainThreadTasksReject ==
    /\ pc = "requestTasks"
    /\ tasksStatus' = "rejected"
    /\ pc' = "rejected"
    /\ UNCHANGED <<settings, recordsStatus, networkRecords, tasks, multiplier, invoked,
                   entities, jsURLs, i, j, product>>

\* the multiplier, and the call of getSummaryByEntity up to its new Map()
CallGetSummaryByEntity ==
    /\ pc = "callGetSummaryByEntity"
    /\ multiplier' = computeMultiplier(settings)
    /\ invoked' = TRUE
    /\ entities' = << >>
    /\ i' = 1
    /\ pc' = "networkRecordsLoop"
    /\ UNCHANGED <<settings, recordsStatus, tasksStatus, networkRecords, tasks,
                   jsURLs, j, product>>

\* one iteration of the loop over networkRecords; an exception leaving
\* getEntitySafe would leave audit as well
ProcessRequest ==
    /\ pc = "networkRecordsLoop"
    /\ i <= Len(networkRecords)
    /\ IF getEntitySafe(networkRecords[i].url) = Thrown
       THEN /\ pc' = "rejected"
            /\ UNCHANGED <<entities, i>>
       ELSE /\ entities' = addRequest(entities, networkRecords[i])
            /\ i' = i + 1
            /\ pc' = pc
    /\ UNCHANGED <<settings, recordsStatus, tasksStatus, networkRecords, tasks,
                   multiplier, invoked, jsURLs, j, product>>

\* the loop over networkRecords is over: const jsURLs = ...
ComputeJsURLs ==
    /\ pc = "networkRecordsLoop"
    /\ i > Len(networkRecords)
    /\ jsURLs' = getJavaScriptURLs(networkRecords)
    /\ j' = 1
    /\ pc' = "tasksLoop"
    /\ UNCHANGED <<settings, recordsStatus, tasksStatus, networkRecords, tasks,
                   multiplier, invoked, entities, i, product>>

\* one iteration of the loop over mainThreadTasks
ProcessTask ==
    /\ pc = "tasksLoop"
    /\ j <= Len(tasks)
    /\ IF getEntitySafe(getAttributableURLForTask(tasks[j], jsURLs)) = Thrown
       THEN /\ pc' = "rejected"
            /\ UNCHANGED <<entities, j>>
       ELSE /\ entities' = addTask(entities, tasks[j], jsURLs, multiplier)
            /\ j' = j + 1
            /\ pc' = pc
    /\ UNCHANGED <<settings, recordsStatus, tasksStatus, networkRecords, tasks,
                   multiplier, invoked, jsURLs, i, product>>

\* getSummaryByEntity returns; audit builds summary, rows and score and resolves
Summarize ==
    /\ pc = "tasksLoop"
    /\ j > Len(tasks)
    /\ LET summary == summarize(entities)
           results == sortRows(mapRows(entities))
       IN  product' = [settled |-> TRUE,
                       score |-> computeScore(results),
                       details |-> [type |-> "table", items |-> results,
                                    summary |-> summary]]
    /\ pc' = "done"
    /\ UNCHANGED <<settings, recordsStatus, tasksStatus, networkRecords, tasks,
                   multiplier, invoked, entities, jsURLs, i, j>>

Next ==
    \/ NetworkRecordsResolve
    \/ NetworkRecordsReject
    \/ MainThreadTasksResolve
    \/ MainThreadTasksReject
    \/ CallGetSummaryByEntity
    \/ ProcessRequest
    \/ ComputeJsURLs
    \/ ProcessTask
    \/ Summarize

Spec == Init /\ [][Next]_vars

----------------------------------------------------------------------------
(* Properties *)

\* the rows and the summary of a settled product
Rows == product.details.items
Summary == product.details.summary

RECURSIVE SumTransferSize(_)
SumTransferSize(rows) ==
    IF rows = << >> THEN 0 ELSE rows[1].transferSize + SumTransferSize(Tail(rows))

RECURSIVE SumMainThreadTime(_)
SumMainThreadTime(rows) ==
    IF rows = << >> THEN 0 ELSE rows[1].mainThreadTime + SumMainThreadTime(Tail(rows))

\* the entity a URL belongs to in the knowledge base, if any
Resolves(url, entity) == entity \in EntityNames /\ thirdPartyWeb_getEntity(url) = entity
Unresolvable(url) == thirdPartyWeb_getEntity(url) \notin EntityNames

\* the URL a task is charged to, given the records of this run
TaskURL(task) == getAttributableURLForTask(task, getJavaScriptURLs(networkRecords))

\* bytes of the records, and scaled time of the tasks, that belong to an entity
RECURSIVE BytesOf(_, _)
BytesOf(records, entity) ==
    IF records = << >> THEN 0
    ELSE (IF Resolves(records[1].url, entity) THEN records[1].transferSize ELSE 0)
         + BytesOf(Tail(records), entity)

RECURSIVE TimeOf(_, _, _)
TimeOf(ts, entity, cpuMultiplier) ==
    IF ts = << >> THEN 0
    ELSE (IF Resolves(TaskURL(ts[1]), entity) THEN ts[1].selfTime * cpuMultiplier ELSE 0)
         + TimeOf(Tail(ts), entity, cpuMultiplier)

\* totals held by a Map for an entity, over all the entries that carry it
RECURSIVE HeldBytes(_, _)
HeldBytes(map, entity) ==
    IF map = << >> THEN 0
    ELSE (IF map[1].entity = entity THEN map[1].stats.transferSize ELSE 0)
         + HeldBytes(Tail(map), entity)

RECURSIVE HeldTime(_, _)
HeldTime(map, entity) ==
    IF map = << >> THEN 0
    ELSE (IF map[1].entity = entity THEN map[1].stats.mainThreadTime ELSE 0)
         + HeldTime(Tail(map), entity)

RowsOf(entity) == {k \in 1..Len(Rows) : Rows[k].entity.text = entity}
EntriesOf(entity) == {k \in 1..Len(entities) : entities[k].entity = entity}
RecordsOf(entity) == {k \in 1..Len(networkRecords) : Resolves(networkRecords[k].url, entity)}
TasksOf(entity) == {k \in 1..Len(tasks) : Resolves(TaskURL(tasks[k]), entity)}

\* C1: the summary of audit holds the sums of its rows: wastedBytes is the sum
\* of transferSize and wastedMs the sum of mainThreadTime over all rows.
C1_SummaryIsSumOfRows ==
    pc = "done" =>
        /\ Summary.wastedBytes = SumTransferSize(Rows)
        /\ Summary.wastedMs = SumMainThreadTime(Rows)

C1_Witness ==
    /\ pc = "done"
    /\ Len(Rows) = 2
    /\ \A k \in 1..2 : Rows[k].transferSize > 0 /\ Rows[k].mainThreadTime > 0
    /\ Summary.wastedBytes = Rows[1].transferSize + Rows[2].transferSize

\* C2: the rows of audit are in descending order of
\* transferSize / 1024 + mainThreadTime: each row's value is at least the next
\* row's (both sides multiplied by 1024).
C2_RowsSortedDescending ==
    pc = "done" =>
        \A k \in 1..(Len(Rows) - 1) :
            Rows[k].transferSize + 1024 * Rows[k].mainThreadTime
                >= Rows[k + 1].transferSize + 1024 * Rows[k + 1].mainThreadTime

\* the first row wins on time although it has fewer bytes, and was created last
C2_Witness ==
    /\ pc = "done"
    /\ Len(Rows) = 2
    /\ Rows[1].transferSize < Rows[2].transferSize
    /\ Rows[1].mainThreadTime > Rows[2].mainThreadTime
    /\ Rows[1].entity.text = entities[2].entity

\* C3: every entity of the aggregate returned by getSummaryByEntity holds, in
\* one entry, the sum of transferSize of the records whose URL resolves to it
\* and the sum of selfTime * cpuMultiplier of the tasks whose attributable URL
\* resolves to it.
C3_EntityTotals ==
    pc = "done" =>
        \A k \in 1..Len(entities) :
            /\ entities[k].stats.transferSize = BytesOf(networkRecords, entities[k].entity)
            /\ entities[k].stats.mainThreadTime
                   = TimeOf(tasks, entities[k].entity, multiplier)

\* records of 100 and 200 bytes and a scaled task merged into one entry
C3_Witness ==
    /\ pc = "done"
    /\ multiplier = 4
    /\ Cardinality(RecordsOf(GA)) = 2
    /\ \E k \in 1..Len(tasks) : tasks[k].selfTime = 100 /\ Resolves(TaskURL(tasks[k]), GA)
    /\ \E k \in 1..Len(entities) :
           /\ entities[k].entity = GA
           /\ entities[k].stats.transferSize = 300
           /\ entities[k].stats.mainThreadTime >= 400

\* C4: a record or task whose lookup throws or finds no entity (a task
\* without attributable URL included) makes getEntitySafe return no match,
\* leaves the aggregate as it is and lets the loop go on to the next item; audit
\* rejects only when an upstream request rejected, and resolves only after
\* every record and task has been gone through.
C4_FailuresAreSkipped ==
    [][ /\ ( /\ pc = "networkRecordsLoop"
             /\ i <= Len(networkRecords)
             /\ Unresolvable(networkRecords[i].url) )
           => /\ getEntitySafe(networkRecords[i].url) = Undefined
              /\ entities' = entities
              /\ i' = i + 1
              /\ pc' = "networkRecordsLoop"
        /\ ( /\ pc = "tasksLoop"
             /\ j <= Len(tasks)
             /\ Unresolvable(TaskURL(tasks[j])) )
           => /\ getEntitySafe(TaskURL(tasks[j])) = Undefined
              /\ entities' = entities
              /\ j' = j + 1
              /\ pc' = "tasksLoop"
        /\ pc' = "rejected" => "rejected" \in {recordsStatus', tasksStatus'}
        /\ pc' = "done" => i' = Len(networkRecords') + 1 /\ j' = Len(tasks') + 1
      ]_vars

\* a throwing record and a task without URL came first, the items after them
\* were still counted
C4_Witness ==
    /\ pc = "done"
    /\ Len(networkRecords) = 2
    /\ thirdPartyWeb_getEntity(networkRecords[1].url) = Thrown
    /\ Resolves(networkRecords[2].url, GA)
    /\ Len(tasks) = 2
    /\ tasks[1].attributableURLs = << >>
    /\ Resolves(TaskURL(tasks[2]), GA)
    /\ Len(Rows) = 1
    /\ Rows[1].transferSize > 0
    /\ Rows[1].mainThreadTime > 0

\* C5: the score of audit is 1 exactly when there is no row, and 0 otherwise,
\* whatever the rows hold.
C5_ScoreIffNoRows ==
    pc = "done" =>
        /\ product.score \in {0, 1}
        /\ product.score = 1 <=> Len(Rows) = 0

\* a row whose totals are both zero still gives score 0
C5_Witness ==
    /\ pc = "done"
    /\ Len(Rows) = 1
    /\ Rows[1].transferSize = 0
    /\ Rows[1].mainThreadTime = 0
    /\ product.score = 0

\* C6: no entity has more than one row, however many records and tasks resolve
\* to it and whichever loop created its entry.
C6_OneRowPerEntity ==
    pc = "done" =>
        /\ \A e \in EntityNames : Cardinality(RowsOf(e)) <= 1
        /\ \A e \in EntityNames : Cardinality(EntriesOf(e)) <= 1

\* one entity with two records and two tasks, another created by the task loop
C6_Witness ==
    /\ pc = "done"
    /\ Cardinality(RecordsOf(GA)) = 2
    /\ Cardinality(TasksOf(GA)) = 1
    /\ RecordsOf(FB) = {}
    /\ Cardinality(TasksOf(FB)) = 1
    /\ Cardinality(RowsOf(GA)) = 1
    /\ Cardinality(RowsOf(FB)) = 1

\* C7: a record adds exactly its transferSize (never scaled by the multiplier)
\* to the bytes of the entity it resolves to and changes no mainThreadTime; a
\* task adds selfTime * cpuMultiplier to the time of the entity it resolves to
\* and changes no transferSize; all other entities keep their totals.
C7_FrameOfEachIteration ==
    [][ /\ (pc = "networkRecordsLoop" /\ i' = i + 1) =>
               \A e \in EntityNames :
                   /\ HeldTime(entities', e) = HeldTime(entities, e)
                   /\ HeldBytes(entities', e)
                          = HeldBytes(entities, e)
                            + (IF Resolves(networkRecords[i].url, e)
                               THEN networkRecords[i].transferSize ELSE 0)
        /\ (pc = "tasksLoop" /\ j' = j + 1) =>
               \A e \in EntityNames :
                   /\ HeldBytes(entities', e) = HeldBytes(entities, e)
                   /\ HeldTime(entities', e)
                          = HeldTime(entities, e)
                            + (IF Resolves(TaskURL(tasks[j]), e)
                               THEN tasks[j].selfTime * multiplier ELSE 0)
      ]_vars

\* under a multiplier of 4 a task has just been added to an entity that has
\* bytes, next to another entity with bytes
C7_Witness ==
    /\ pc = "tasksLoop"
    /\ j = 2
    /\ multiplier = 4
    /\ HeldBytes(entities, GA) = 100
    /\ HeldTime(entities, GA) = 200
    /\ HeldBytes(entities, FB) = 2048
    /\ HeldTime(entities, FB) = 0

\* what settings ask for
Simulated == settings # NoSettings /\ settings.throttlingMethod = "simulate"

\* C8 as stated: the multiplier handed to getSummaryByEntity is 1 without
\* simulated throttling, and under simulated throttling it is the configured
\* cpuSlowdownMultiplier and greater than 1.
C8_AsStated ==
    invoked =>
        /\ ~Simulated => multiplier = 1
        /\ Simulated =>
               /\ multiplier = settings.throttling.cpuSlowdownMultiplier
               /\ multiplier > 1

\* C8, amended: the multiplier handed to getSummaryByEntity is 1 without
\* simulated throttling (any other throttlingMethod, or no settings), and
\* under simulated throttling it is the configured cpuSlowdownMultiplier,
\* whatever that is.
C8_MultiplierFromSettings ==
    invoked =>
        /\ ~Simulated => multiplier = 1
        /\ Simulated => multiplier = settings.throttling.cpuSlowdownMultiplier

\* simulated throttling with a slowdown of 4: the multiplier is 4
C8_Witness ==
    /\ invoked
    /\ Simulated
    /\ settings.throttling.cpuSlowdownMultiplier = 4
    /\ multiplier = 4

\* C9: getSummaryByEntity is invoked only after both requests resolved, the
\* tasks are requested only after the records resolved, and when a request
\* rejects audit rejects without an aggregate, rows, summary or score.
C9_NoAggregationWithoutInputs ==
    /\ invoked => recordsStatus = "resolved" /\ tasksStatus = "resolved"
    /\ tasksStatus # "pending" => recordsStatus = "resolved"
    /\ "rejected" \in {recordsStatus, tasksStatus} =>
           /\ pc = "rejected"
           /\ ~invoked
           /\ entities = << >>
           /\ product = NoProduct

\* the tasks request rejected after records that would have given rows
C9_Witness ==
    /\ pc = "rejected"
    /\ recordsStatus = "resolved"
    /\ tasksStatus = "rejected"
    /\ RecordsOf(GA) # {}
    /\ ~invoked

\* C10: an entity has an entry, and a row, exactly when a record's URL or a
\* task's attributable URL resolved to it, whatever the amounts: a resolved
\* item of amount 0 still creates the entry.
C10_EntryIffResolved ==
    pc = "done" =>
        \A e \in EntityNames :
            /\ EntriesOf(e) # {} <=> (RecordsOf(e) # {} \/ TasksOf(e) # {})
            /\ RowsOf(e) # {} <=> EntriesOf(e) # {}

\* an entity reached by a task of 0 ms alone: one row without bytes or time,
\* score 0 and a zero summary
C10_Witness ==
    /\ pc = "done"
    /\ RecordsOf(FB) = {}
    /\ \E k \in TasksOf(FB) : tasks[k].selfTime = 0
    /\ \E k \in RowsOf(FB) : Rows[k].transferSize = 0 /\ Rows[k].mainThreadTime = 0
    /\ Len(Rows) = 1
    /\ product.score = 0
    /\ Summary.wastedBytes = 0
    /\ Summary.wastedMs = 0

====
